---- MODULE Spec2Model ----
(***************************************************************************)
(* Storage layer of fuel-core: the primitive codecs, the table/column      *)
(* declarations, the Database facade over the structured storage, the      *)
(* Merkle-root storage and the changeset commit.                           *)
(*                                                                         *)
(* Conventions.  Option values are sequences: None == <<>> and             *)
(* Some(x) == <<x>>.  A Result is a record [tag, val]: tag "Ok" carries    *)
(* the value, any other tag names the error kind.  Byte strings are        *)
(* sequences of 0..255.  An unsigned integer wider than one byte is kept   *)
(* as its sequence of 16-bit limbs, most significant limb first, so that   *)
(* 64- and 128-bit values keep their full width.                           *)
(***************************************************************************)
EXTENDS Integers, Sequences, FiniteSets, TLC

VARIABLES
    store,    \* the key-value store: column -> raw key -> Option(raw value)
    last,     \* the last facade call: its operation, arguments, buffer and Result
    nops,     \* number of facade calls made so far
    mstate,   \* merkleized table, committed: [data, nodes, meta]
    changes,  \* the changeset being built: a sequence of raw writes
    mwrites,  \* number of inserts and removes executed so far
    rpc,      \* reader: "idle" or "open" (holding a snapshot)
    rkey,     \* reader: the table key it looks up
    rsnap,    \* reader: its snapshot of the store
    robs,     \* reader: what get and root returned, [data, root], None until asked
    ordTree,  \* order run: the tree the pairs belong to
    ordA,     \* order run: the store the pairs are inserted into in any order
    ordPendA, \* order run: the pairs not yet inserted into ordA
    ordSeqA,  \* order run: the slots in the order they were inserted into ordA
    ordB,     \* order run: the store the pairs are inserted into in ascending key order
    ordPendB, \* order run: the pairs not yet inserted into ordB
    cpc,      \* codec run: "value" (to encode), "bytes" (to decode), "decoded", "idle"
    cty,      \* codec run: the type the Primitive codec is used at
    cval,     \* codec run: the value handed to encode (<<>> when the run starts from bytes)
    cbytes,   \* codec run: the encoder's bytes, or the foreign bytes handed to decode
    cres      \* codec run: decode's Result

codecVars == <<cpc, cty, cval, cbytes, cres>>

dbVars == <<store, last, nops>>

merkleVars == <<mstate, changes, mwrites, rpc, rkey, rsnap, robs>>

orderVars == <<ordTree, ordA, ordPendA, ordSeqA, ordB, ordPendB>>

None == <<>>
Some(x) == <<x>>
Ok(x) == [tag |-> "Ok", val |-> x]
Err(kind) == [tag |-> kind, val |-> None]

IdleCodec ==
    /\ cpc = "idle"
    /\ cty = "u8"
    /\ cval = None
    /\ cbytes = <<>>
    /\ cres = Err("None")

(***************************************************************************)
(* Tables, columns and structures                                          *)
(* structured_storage/contracts.rs, structured_storage/blocks.rs           *)
(***************************************************************************)

\* The length of a key (a ContractId, a block id; scaled down from 32).
KeyLen == 2

\* Number of facade calls in one run.
MaxOps == 3

\* The longest buffer handed to read.
MaxBuf == 3

\* The tables whose structure is declared Plain in the two files.
PlainTables == {"ContractsRawCode", "ContractsInfo", "ContractsLatestUtxo", "FuelBlocks"}

\* Variant: ContractsInfo declared with the column of ContractsRawCode.
column_shared(table) ==
    CASE table = "ContractsRawCode" -> "Column::ContractsRawCode"
      [] table = "ContractsInfo" -> "Column::ContractsRawCode"
      [] table = "ContractsLatestUtxo" -> "Column::ContractsLatestUtxo"
      [] table = "FuelBlocks" -> "Column::FuelBlocks"

\* TableWithStructure::column()
column(table) ==
    CASE table = "ContractsRawCode" -> "Column::ContractsRawCode"
      [] table = "ContractsInfo" -> "Column::ContractsInfo"
      [] table = "ContractsLatestUtxo" -> "Column::ContractsLatestUtxo"
      [] table = "FuelBlocks" -> "Column::FuelBlocks"

Columns == { column(t) : t \in PlainTables }

\* TableWithStructure::Structure = Plain<KeyCodec, ValueCodec>
KeyCodec(table) == "Raw"

\* Variant: every table, the bytecode too, uses the structured codec.
ValueCodec_framed(table) == "Postcard"

ValueCodec(table) ==
    IF table = "ContractsRawCode" THEN "Raw" ELSE "Postcard"

\* Keys of the tables (contract ids, block ids) and their raw bytes.
Keys == { [j \in 1..KeyLen |-> b] : b \in {1, 7} }

\* Values of each table: contract bytecode for ContractsRawCode (the empty
\* code included), the fields of the stored struct for the other tables.
Values(table) ==
    IF table = "ContractsRawCode"
    THEN {<<>>, <<32>>, <<1, 2>>}
    ELSE {<<2>>, <<3, 3>>}

(***************************************************************************)
(* Codecs Raw and Postcard                                                 *)
(***************************************************************************)

\* Raw: the bytes as they are.
Raw_encode(v) == v

Raw_decode(bytes) == Ok(bytes)

\* Postcard: structured serialization, here a length byte followed by the
\* fields; decode fails on bytes that are not of that shape.
Postcard_encode(v) == <<Len(v)>> \o v

Postcard_decode(bytes) ==
    IF Len(bytes) >= 1 /\ bytes[1] = Len(bytes) - 1
    THEN Ok(Tail(bytes))
    ELSE Err("Codec")

Codec_encode(codec, v) ==
    IF codec = "Raw" THEN Raw_encode(v) ELSE Postcard_encode(v)

Codec_decode(codec, bytes) ==
    IF codec = "Raw" THEN Raw_decode(bytes) ELSE Postcard_decode(bytes)

\* Raw bytes that may sit in a column without having been written through
\* the table's codec.
ForeignBytes == {<<9>>}

(***************************************************************************)
(* KeyValueStore: the raw byte store, one key space per column             *)
(***************************************************************************)

KV_get(s, key, col) == s[col][key]

KV_exists(s, key, col) == s[col][key] # None

KV_size_of_value(s, key, col) ==
    IF s[col][key] = None THEN None ELSE Some(Len(s[col][key][1]))

KV_put(s, key, col, bytes) == [s EXCEPT ![col][key] = Some(bytes)]

KV_delete(s, key, col) == [s EXCEPT ![col][key] = None]

\* read: copy the stored bytes to the front of the buffer, report their number.
KV_read_buf(s, key, col, buf) ==
    IF s[col][key] = None THEN buf
    ELSE LET value == s[col][key][1]
         IN  [j \in 1..Len(buf) |-> IF j <= Len(value) THEN value[j] ELSE buf[j]]

(***************************************************************************)
(* StructuredStorage: Plain structure                                      *)
(* (the generic adapter: encode the key, raw read or write on the table's  *)
(* column, decode the value; an insert writes and then decodes the         *)
(* previous value, a remove deletes and then decodes the previous value)   *)
(***************************************************************************)

\* Option<bytes> decoded with the table's value codec: Result<Option<value>>.
DecodeOption(table, raw) ==
    IF raw = None THEN Ok(None)
    ELSE LET d == Codec_decode(ValueCodec(table), raw[1])
         IN  IF d.tag = "Ok" THEN Ok(Some(d.val)) ELSE d

StructuredStorage_get(s, table, key) ==
    DecodeOption(table, KV_get(s, Codec_encode(KeyCodec(table), key), column(table)))

StructuredStorage_contains_key(s, table, key) ==
    Ok(KV_exists(s, Codec_encode(KeyCodec(table), key), column(table)))

\* insert = replace: write the encoded value, decode and return the previous one.
StructuredStorage_insert_store(s, table, key, value) ==
    KV_put(s, Codec_encode(KeyCodec(table), key), column(table),
           Codec_encode(ValueCodec(table), value))

StructuredStorage_insert(s, table, key, value) ==
    DecodeOption(table, KV_get(s, Codec_encode(KeyCodec(table), key), column(table)))

\* remove = take: delete the row, decode and return the previous value.
StructuredStorage_remove_store(s, table, key) ==
    KV_delete(s, Codec_encode(KeyCodec(table), key), column(table))

StructuredStorage_remove(s, table, key) ==
    DecodeOption(table, KV_get(s, Codec_encode(KeyCodec(table), key), column(table)))

\* StorageSize<ContractsRawCode>
StructuredStorage_size_of_value(s, key) ==
    Ok(KV_size_of_value(s, key, "Column::ContractsRawCode"))

\* StorageRead<ContractsRawCode> for StructuredStorage: read
StructuredStorage_read(s, key, buf) ==
    Ok(KV_size_of_value(s, key, "Column::ContractsRawCode"))

StructuredStorage_read_buf(s, key, buf) ==
    KV_read_buf(s, key, "Column::ContractsRawCode", buf)

\* StorageRead<ContractsRawCode> for StructuredStorage: read_alloc
StructuredStorage_read_alloc(s, key) ==
    Ok(KV_get(s, key, "Column::ContractsRawCode"))

(***************************************************************************)
(* Database facade: database/storage.rs                                    *)
(***************************************************************************)

\* Variant: a missing row is reported as a not-found error.
Database_get_not_found(s, table, key) ==
    LET r == StructuredStorage_get(s, table, key)
    IN  IF r = Ok(None) THEN Err("NotFound") ELSE r

\* StorageInspect<M> for Database
Database_get(s, table, key) == StructuredStorage_get(s, table, key)

Database_contains_key(s, table, key) == StructuredStorage_contains_key(s, table, key)

\* StorageMutate<M> for Database
Database_insert(s, table, key, value) == StructuredStorage_insert(s, table, key, value)

\* Variant: the write is lost.
Database_insert_store_dropped(s, table, key, value) == s

Database_insert_store(s, table, key, value) ==
    StructuredStorage_insert_store(s, table, key, value)

Database_remove(s, table, key) == StructuredStorage_remove(s, table, key)

\* Variant: the row is kept.
Database_remove_store_kept(s, table, key) == s

Database_remove_store(s, table, key) == StructuredStorage_remove_store(s, table, key)

\* StorageSize<M> for Database
Database_size_of_value(s, key) == StructuredStorage_size_of_value(s, key)

\* StorageRead<M> for Database
Database_read(s, key, buf) == StructuredStorage_read(s, key, buf)

Database_read_buf(s, key, buf) == StructuredStorage_read_buf(s, key, buf)

Database_read_alloc(s, key) == StructuredStorage_read_alloc(s, key)

\* BlockProducerDatabase::get_block: a missing block is a not-found error.
get_block(s, height) ==
    LET r == Database_get(s, "FuelBlocks", height)
    IN  IF r.tag # "Ok" THEN r
        ELSE IF r.val = None THEN Err("NotFound")
        ELSE Ok(r.val[1])

(***************************************************************************)
(* The facade's calls as actions                                           *)
(***************************************************************************)

NoBuf == <<>>

Call(op, table, key, value, buf, failed, result) ==
    [op |-> op, table |-> table, key |-> key, value |-> value,
     buf |-> buf, failed |-> failed, result |-> result]

InitDb ==
    /\ store = [c \in Columns |-> [k \in Keys |-> None]]
    /\ last = Call("none", "none", <<>>, None, NoBuf, FALSE, Ok(None))
    /\ nops = 0

Step ==
    /\ nops < MaxOps
    /\ nops' = nops + 1

Get ==
    /\ Step
    /\ \E table \in PlainTables, key \in Keys :
        /\ last' = Call("get", table, key, None, NoBuf, FALSE,
                         Database_get(store, table, key))
        /\ store' = store
    /\ UNCHANGED <<codecVars, merkleVars, orderVars>>

ContainsKey ==
    /\ Step
    /\ \E table \in PlainTables, key \in Keys :
        /\ last' = Call("contains_key", table, key, None, NoBuf, FALSE,
                         Database_contains_key(store, table, key))
        /\ store' = store
    /\ UNCHANGED <<codecVars, merkleVars, orderVars>>

Insert ==
    /\ Step
    /\ \E table \in PlainTables, key \in Keys :
        \E value \in Values(table) :
            /\ last' = Call("insert", table, key, Some(value), NoBuf, FALSE,
                             Database_insert(store, table, key, value))
            /\ store' = Database_insert_store(store, table, key, value)
    /\ UNCHANGED <<codecVars, merkleVars, orderVars>>

Remove ==
    /\ Step
    /\ \E table \in PlainTables, key \in Keys :
        /\ last' = Call("remove", table, key, None, NoBuf, FALSE,
                         Database_remove(store, table, key))
        /\ store' = Database_remove_store(store, table, key)
    /\ UNCHANGED <<codecVars, merkleVars, orderVars>>

SizeOfValue ==
    /\ Step
    /\ \E key \in Keys :
        /\ last' = Call("size_of_value", "ContractsRawCode", key, None, NoBuf, FALSE,
                         Database_size_of_value(store, key))
        /\ store' = store
    /\ UNCHANGED <<codecVars, merkleVars, orderVars>>

ReadAlloc ==
    /\ Step
    /\ \E key \in Keys :
        /\ last' = Call("read_alloc", "ContractsRawCode", key, None, NoBuf, FALSE,
                         Database_read_alloc(store, key))
        /\ store' = store
    /\ UNCHANGED <<codecVars, merkleVars, orderVars>>

\* read into a caller's buffer that has room for the stored value (the
\* caller sizes it with size_of_value); the buffer starts filled with 255.
Read ==
    /\ Step
    /\ \E key \in Keys, n \in 0..MaxBuf :
        LET buf == [j \in 1..n |-> 255]
            size == KV_size_of_value(store, key, column("ContractsRawCode"))
        IN  /\ size # None => n >= size[1]
            /\ /\ last' = Call("read", "ContractsRawCode", key, None,
                                    Database_read_buf(store, key, buf), FALSE,
                                    Database_read(store, key, buf))
                    /\ store' = store
    /\ UNCHANGED <<codecVars, merkleVars, orderVars>>

GetBlock ==
    /\ Step
    /\ \E height \in Keys :
        /\ last' = Call("get_block", "FuelBlocks", height, None, NoBuf, FALSE,
                         get_block(store, height))
        /\ store' = store
    /\ UNCHANGED <<codecVars, merkleVars, orderVars>>

\* A call during which the backing store fails: the store's error is
\* returned and nothing is written.
StoreFailure ==
    /\ Step
    /\ \E op \in {"get", "contains_key", "insert", "remove"}, table \in PlainTables, key \in Keys :
        /\ last' = Call(op, table, key, None, NoBuf, TRUE, Err("Store"))
        /\ store' = store
    /\ UNCHANGED <<codecVars, merkleVars, orderVars>>

\* A raw write below the facade: bytes put into a column by another writer
\* of the key-value store, not through the table's codec.
RawPut ==
    /\ Step
    /\ \E col \in Columns, key \in Keys, bytes \in ForeignBytes :
        /\ store' = KV_put(store, key, col, bytes)
        /\ last' = Call("raw_put", col, key, Some(bytes), NoBuf, FALSE, Ok(None))
    /\ UNCHANGED <<codecVars, merkleVars, orderVars>>

Next ==
    \/ Get
    \/ ContainsKey
    \/ Insert
    \/ Remove
    \/ SizeOfValue
    \/ ReadAlloc
    \/ Read
    \/ GetBlock
    \/ RawPut
    \/ StoreFailure

(***************************************************************************)
(* Merkleized structure: a table with its MerkleData and MerkleMetadata    *)
(* companions (ContractsState, ContractsStateMerkleData,                   *)
(* ContractsStateMerkleMetadata)                                           *)
(***************************************************************************)

\* Depth of a tree (scaled down from the 256 levels of a 32-byte key
\* space): a tree has 2^TreeDepth leaf slots.
TreeDepth == 2

\* Inserts and removes executed in one run.
MaxWrites == 2

\* Pairs of the changeset in an order run.
MaxPairs == 3

RECURSIVE Pow2(_)
Pow2(n) == IF n = 0 THEN 1 ELSE 2 * Pow2(n - 1)

\* Tree keys (contract ids), the slots of a tree (state keys) and the
\* table's keys, a tree key with a slot.
Trees == {1, 7}

Slots == 0..(Pow2(TreeDepth) - 1)

MKeys == Trees \X Slots

MValues == {<<4>>, <<5, 5>>}

NodeIds == UNION { { <<l, p>> : p \in 0..(Pow2(l) - 1) } : l \in 1..TreeDepth }

\* Digests. The hash is collision-free: a digest is the term it was computed from.
EmptyDigest == <<"E">>

Leaf(slot, value) == <<"L", slot, value>>

Combine(l, r) ==
    IF l = EmptyDigest /\ r = EmptyDigest THEN EmptyDigest ELSE <<"N", l, r>>

Metadata(root, count) == [root |-> root, count |-> count]

EmptyMerkle ==
    [data |-> [k \in MKeys |-> None],
     nodes |-> [t \in Trees |-> [n \in NodeIds |-> EmptyDigest]],
     meta |-> [t \in Trees |-> None]]

\* A changeset is a sequence of raw writes (column, key, value); applying a
\* write sets the row, applying a changeset applies all of its writes.
Write(col, key, val) == [col |-> col, key |-> key, val |-> val]

ApplyWrite(ms, w) ==
    CASE w.col = "data" -> [ms EXCEPT !.data[w.key] = w.val]
      [] w.col = "nodes" -> [ms EXCEPT !.nodes[w.key[1]][w.key[2]] = w.val]
      [] w.col = "meta" -> [ms EXCEPT !.meta[w.key] = w.val]

RECURSIVE ApplyWrites(_, _)
ApplyWrites(ms, ws) ==
    IF ws = <<>> THEN ms ELSE ApplyWrites(ApplyWrite(ms, Head(ws)), Tail(ws))

\* Variant: only the first write of the changeset takes effect.
ApplyChangeset_first_write(ms, ws) ==
    IF ws = <<>> THEN ms ELSE ApplyWrite(ms, Head(ws))

\* apply(changeset): all of its writes take effect in one step.
ApplyChangeset(ms, ws) == ApplyWrites(ms, ws)

LeafCount(ms, tree) ==
    IF ms.meta[tree] = None THEN 0 ELSE ms.meta[tree][1].count

\* Variant: a leaf is numbered by its order of arrival, not by its key.
LeafDigest_by_count(ms, tree, slot, value) == Leaf(LeafCount(ms, tree), value)

\* The digest of the leaf of a key and value.
LeafDigest(ms, tree, slot, value) == Leaf(slot, value)

\* The digest of the node at `level` on the path to `slot`, once the leaf
\* of the slot is `leaf`: computed from the child on the path and the
\* stored sibling of that child.
RECURSIVE PathDigest(_, _, _, _)
PathDigest(nodes, slot, leaf, level) ==
    IF level = TreeDepth THEN leaf
    ELSE LET pos == slot \div Pow2(TreeDepth - level - 1)
             child == PathDigest(nodes, slot, leaf, level + 1)
         IN  IF pos % 2 = 0
             THEN Combine(child, nodes[<<level + 1, pos + 1>>])
             ELSE Combine(nodes[<<level + 1, pos - 1>>], child)

\* The leaf count once the row of `key` is `val`.
LeafCountAfter(ms, key, val) ==
    LET count == LeafCount(ms, key[1])
    IN  CASE ms.data[key] = None /\ val # None -> count + 1
          [] ms.data[key] # None /\ val = None -> count - 1
          [] OTHER -> count

\* The writes of an insert (val = Some(value)) or a remove (val = None):
\* the row of the table, the nodes on the path of the leaf from the leaf
\* up, and the tree's metadata with the new root and leaf count.
MerkleWrites(ms, key, val) ==
    LET tree == key[1]
        slot == key[2]
        leaf == IF val = None THEN EmptyDigest ELSE LeafDigest(ms, tree, slot, val[1])
        node(level) == PathDigest(ms.nodes[tree], slot, leaf, level)
    IN  IF val = None /\ ms.data[key] = None THEN <<>>
        ELSE <<Write("data", key, val)>>
             \o [i \in 1..TreeDepth |->
                    LET level == TreeDepth + 1 - i
                    IN  Write("nodes", <<tree, <<level, slot \div Pow2(TreeDepth - level)>>>>,
                              node(level))]
             \o <<Write("meta", tree, Some(Metadata(node(0), LeafCountAfter(ms, key, val))))>>

Merkle_get(ms, key) == Ok(ms.data[key])

\* MerkleRootStorage::root: the stored root, the empty tree's for a tree
\* without metadata.
StructuredStorage_root(ms, tree) ==
    Ok(IF ms.meta[tree] = None THEN EmptyDigest ELSE ms.meta[tree][1].root)

\* Variant: the tree key is ignored.
Database_root_any_tree(ms, tree) ==
    StructuredStorage_root(ms, CHOOSE t \in Trees : \A u \in Trees : t <= u)

\* MerkleRootStorage<Key, M> for Database
Database_root(ms, tree) == StructuredStorage_root(ms, tree)

\* BlockProducerDatabase::block_header_merkle_root
block_header_merkle_root(ms, height) == Database_root(ms, height)

(***************************************************************************)
(* Executing into a changeset, committing it, and a concurrent reader      *)
(***************************************************************************)

InitMerkle ==
    /\ mstate = EmptyMerkle
    /\ changes = <<>>
    /\ mwrites = 0
    /\ rpc = "idle"
    /\ rkey = <<0, 0>>
    /\ rsnap = EmptyMerkle
    /\ robs = [data |-> None, root |-> None]

\* No order run is in progress.
IdleOrder ==
    /\ ordTree = 0
    /\ ordA = EmptyMerkle
    /\ ordPendA = {}
    /\ ordSeqA = <<>>
    /\ ordB = EmptyMerkle
    /\ ordPendB = {}

\* The store as the executor sees it: the committed store with the
\* changeset's writes on top.
View == ApplyWrites(mstate, changes)

\* execute_without_commit: the block's inserts and removes go to the
\* changeset, the committed store is left as it is.
ExecuteInsert ==
    /\ mwrites < MaxWrites
    /\ \E key \in MKeys, value \in MValues :
        changes' = changes \o MerkleWrites(View, key, Some(value))
    /\ mwrites' = mwrites + 1
    /\ UNCHANGED <<mstate, rpc, rkey, rsnap, robs>>
    /\ UNCHANGED <<dbVars, orderVars, codecVars>>

ExecuteRemove ==
    /\ mwrites < MaxWrites
    /\ \E key \in MKeys :
        changes' = changes \o MerkleWrites(View, key, None)
    /\ mwrites' = mwrites + 1
    /\ UNCHANGED <<mstate, rpc, rkey, rsnap, robs>>
    /\ UNCHANGED <<dbVars, orderVars, codecVars>>

\* The changeset is committed.
Commit ==
    /\ changes # <<>>
    /\ mstate' = ApplyChangeset(mstate, changes)
    /\ changes' = <<>>
    /\ UNCHANGED <<mwrites, rpc, rkey, rsnap, robs>>
    /\ UNCHANGED <<dbVars, orderVars, codecVars>>

\* The changeset is dropped.
Discard ==
    /\ changes # <<>>
    /\ changes' = <<>>
    /\ UNCHANGED <<mstate, mwrites, rpc, rkey, rsnap, robs>>
    /\ UNCHANGED <<dbVars, orderVars, codecVars>>

\* A reader takes a snapshot and looks up a key of the table and then the
\* root of the key's tree, while the writer executes and commits.
ReaderBegin ==
    /\ rpc = "idle"
    /\ rpc' = "open"
    /\ rkey' \in MKeys
    /\ rsnap' = mstate
    /\ robs' = [data |-> None, root |-> None]
    /\ UNCHANGED <<mstate, changes, mwrites>>
    /\ UNCHANGED <<dbVars, orderVars, codecVars>>

ReaderGet ==
    /\ rpc = "open"
    /\ robs.data = None
    /\ robs' = [robs EXCEPT !.data = Some(Merkle_get(rsnap, rkey))]
    /\ UNCHANGED <<mstate, changes, mwrites, rpc, rkey, rsnap>>
    /\ UNCHANGED <<dbVars, orderVars, codecVars>>

ReaderRoot ==
    /\ rpc = "open"
    /\ robs.data # None
    /\ robs.root = None
    /\ robs' = [robs EXCEPT !.root = Some(block_header_merkle_root(rsnap, rkey[1]))]
    /\ UNCHANGED <<mstate, changes, mwrites, rpc, rkey, rsnap>>
    /\ UNCHANGED <<dbVars, orderVars, codecVars>>

ReaderEnd ==
    /\ rpc = "open"
    /\ robs.data # None
    /\ robs.root # None
    /\ rpc' = "idle"
    /\ rkey' = <<0, 0>>
    /\ rsnap' = EmptyMerkle
    /\ robs' = [data |-> None, root |-> None]
    /\ UNCHANGED <<mstate, changes, mwrites>>
    /\ UNCHANGED <<dbVars, orderVars, codecVars>>

Init ==
    /\ InitDb
    /\ InitMerkle
    /\ IdleOrder
    /\ IdleCodec

NextMerkle ==
    \/ ExecuteInsert
    \/ ExecuteRemove
    \/ Commit
    \/ Discard
    \/ ReaderBegin
    \/ ReaderGet
    \/ ReaderRoot
    \/ ReaderEnd

(***************************************************************************)
(* One changeset's pairs inserted in different orders                      *)
(***************************************************************************)

\* The sets of at most MaxPairs (slot, value) pairs with different slots.
PairSets ==
    { ps \in SUBSET (Slots \X MValues) :
        /\ Cardinality(ps) <= MaxPairs
        /\ \A p, q \in ps : p[1] = q[1] => p = q }

\* The stores an order run may start from: the empty one, and one pair
\* already in the tree.
BaseStores(tree) ==
    {EmptyMerkle}
    \cup { ApplyWrites(EmptyMerkle, MerkleWrites(EmptyMerkle, <<tree, 0>>, Some(v))) :
             v \in MValues }

InitOrder ==
    /\ InitDb
    /\ InitMerkle
    /\ IdleCodec
    /\ ordTree \in Trees
    /\ ordA \in BaseStores(ordTree)
    /\ ordB = ordA
    /\ ordPendA \in PairSets
    /\ ordSeqA = <<>>
    /\ ordPendB = ordPendA

\* Any pending pair is inserted next.
InsertAnyOrder ==
    /\ \E p \in ordPendA :
        /\ ordA' = ApplyWrites(ordA, MerkleWrites(ordA, <<ordTree, p[1]>>, Some(p[2])))
        /\ ordPendA' = ordPendA \ {p}
        /\ ordSeqA' = Append(ordSeqA, p[1])
    /\ UNCHANGED <<ordTree, ordB, ordPendB>>
    /\ UNCHANGED <<dbVars, merkleVars, codecVars>>

\* The pending pair of the least slot is inserted next.
InsertAscending ==
    /\ \E p \in ordPendB :
        /\ \A q \in ordPendB : p[1] <= q[1]
        /\ ordB' = ApplyWrites(ordB, MerkleWrites(ordB, <<ordTree, p[1]>>, Some(p[2])))
        /\ ordPendB' = ordPendB \ {p}
    /\ UNCHANGED <<ordTree, ordA, ordPendA, ordSeqA>>
    /\ UNCHANGED <<dbVars, merkleVars, codecVars>>

NextOrder == InsertAnyOrder \/ InsertAscending

(***************************************************************************)
(* codec/primitive.rs                                                      *)
(***************************************************************************)

\* The longest foreign byte string handed to decode.
MaxInputLen == 34

\* TxId::LEN, the length of a transaction id.
TxIdLen == 32

PrimitiveTypes == {"u8", "u16", "u32", "BlockHeight", "DaBlockHeight", "u64", "u128", "UtxoId"}

IntegerTypes == PrimitiveTypes \ {"UtxoId"}

\* The SIZE of the Primitive<SIZE> each type is encoded with.
PrimitiveSize(ty) ==
    CASE ty = "u8" -> 1
      [] ty = "u16" -> 2
      [] ty = "u32" -> 4
      [] ty = "BlockHeight" -> 4
      [] ty = "DaBlockHeight" -> 8
      [] ty = "u64" -> 8
      [] ty = "u128" -> 16
      [] ty = "UtxoId" -> TxIdLen + 1

\* Number of 16-bit limbs of an integer of `size` bytes (a u8 is one limb < 256).
Limbs(size) == (size + 1) \div 2

\* Variant: least significant byte first.
to_le_bytes(limbs, size) ==
    [j \in 1..size |->
        LET d == j - 1
            limb == limbs[Limbs(size) - (d \div 2)]
        IN  IF d % 2 = 0 THEN limb % 256 ELSE limb \div 256]

\* t.to_be_bytes() of an integer of `size` bytes: byte j (1-based) is digit
\* size - j of the value in base 256.
to_be_bytes(limbs, size) ==
    [j \in 1..size |->
        LET d == size - j
            limb == limbs[Limbs(size) - (d \div 2)]
        IN  IF d % 2 = 0 THEN limb % 256 ELSE limb \div 256]

\* Variant: the array read least significant byte first.
from_le_bytes(bytes, size) ==
    [i \in 1..Limbs(size) |->
        LET lo == 2 * (Limbs(size) - i) + 1
        IN  bytes[lo] + (IF lo < size THEN 256 * bytes[lo + 1] ELSE 0)]

\* <$ty>::from_be_bytes(array) for an array of `size` bytes.
from_be_bytes(bytes, size) ==
    [i \in 1..Limbs(size) |->
        LET lo == size - 2 * (Limbs(size) - i)
        IN  bytes[lo] + (IF lo > 1 THEN 256 * bytes[lo - 1] ELSE 0)]

\* Variant: a longer slice is cut to N bytes.
array_try_from_lax(bytes, n) ==
    IF Len(bytes) >= n THEN Ok(SubSeq(bytes, 1, n)) ELSE Err("Codec")

\* <[u8; N]>::try_from(bytes): the array when the slice has exactly N bytes.
array_try_from(bytes, n) ==
    IF Len(bytes) = n THEN Ok(bytes) ELSE Err("Codec")

\* utxo_id_to_bytes: the transaction id followed by the output index.
utxo_id_to_bytes(utxo_id) ==
    [j \in 1..(TxIdLen + 1) |->
        IF j <= TxIdLen THEN utxo_id.tx_id[j] ELSE utxo_id.output_index]

\* Encode<$ty> for Primitive<SIZE> (impl_encode!) and Encode<UtxoId>.
Primitive_encode(ty, t) ==
    IF ty = "UtxoId"
    THEN utxo_id_to_bytes(t)
    ELSE to_be_bytes(t, PrimitiveSize(ty))

\* Decode<$ty> for Primitive<SIZE> (impl_decode!), Decode<BlockHeight>,
\* Decode<DaBlockHeight> and Decode<UtxoId>.
Primitive_decode(ty, bytes) ==
    LET arr == array_try_from(bytes, PrimitiveSize(ty))
    IN  IF arr.tag # "Ok" THEN arr
        ELSE IF ty = "UtxoId"
        THEN Ok([tx_id |-> SubSeq(arr.val, 1, TxIdLen),
                 output_index |-> arr.val[TxIdLen + 1]])
        ELSE Ok(from_be_bytes(arr.val, PrimitiveSize(ty)))

\* Sample limbs and bytes: the boundary values of a limb and of a byte.
LimbSamples == {0, 1, 5, 255, 256, 4660, 65535}

ByteSamples == {0, 1, 2, 255}

\* Sample values of each type: every limb the same, one limb set and the
\* others zero, and all limbs different; every value of u8.
ValueSamples(ty) ==
    IF ty = "UtxoId"
    THEN { [tx_id |-> [j \in 1..TxIdLen |-> IF j = p THEN a ELSE b], output_index |-> o] :
             p \in {0, 1, TxIdLen}, a \in ByteSamples, b \in {0, 1}, o \in ByteSamples }
    ELSE IF ty = "u8"
    THEN { <<b>> : b \in 0..255 }
    ELSE LET n == Limbs(PrimitiveSize(ty))
         IN  { [i \in 1..n |-> IF p = 0 \/ i = p THEN c ELSE 0] : p \in 0..n, c \in LimbSamples }
             \cup { [i \in 1..n |-> (i * 4369 + 258) % 65536] }

\* Foreign byte strings of every length up to MaxInputLen.
InputSamples ==
    { [j \in 1..n |-> IF p = 0 THEN c ELSE (j * 37 + c) % 256] :
        n \in 0..MaxInputLen, p \in {0, 1}, c \in ByteSamples }

InitCodec ==
    /\ InitDb
    /\ InitMerkle
    /\ IdleOrder
    /\ cty \in PrimitiveTypes
    /\ \/ /\ cpc = "value"
          /\ cval \in { Some(v) : v \in ValueSamples(cty) }
          /\ cbytes = <<>>
       \/ /\ cpc = "bytes"
          /\ cval = None
          /\ cbytes \in InputSamples
    /\ cres = Err("None")

\* Primitive::<SIZE>::encode(&value).as_bytes()
Encode ==
    /\ cpc = "value"
    /\ cbytes' = Primitive_encode(cty, cval[1])
    /\ cpc' = "bytes"
    /\ UNCHANGED <<cty, cval, cres>>
    /\ UNCHANGED <<dbVars, merkleVars, orderVars>>

\* Primitive::<SIZE>::decode(bytes)
Decode ==
    /\ cpc = "bytes"
    /\ cres' = Primitive_decode(cty, cbytes)
    /\ cpc' = "decoded"
    /\ UNCHANGED <<cty, cval, cbytes>>
    /\ UNCHANGED <<dbVars, merkleVars, orderVars>>

NextCodec == Encode \/ Decode

(***************************************************************************)
(* The version tables and the producer's latest-version lookups            *)
(* service/adapters/producer.rs; the tables ConsensusParametersVersions    *)
(* and StateTransitionBytecodeVersions, their iteration and the key-value  *)
(* store's ordered iteration follow the specification.                     *)
(* This run uses the store, the last call and the call counter of the      *)
(* facade, opened on the columns of the two version tables.                *)
(***************************************************************************)

\* Number of calls in one run over the version tables.
MaxVersionOps == 4

VersionTables == {"ConsensusParametersVersions", "StateTransitionBytecodeVersions"}

VersionColumn(table) ==
    CASE table = "ConsensusParametersVersions" -> "Column::ConsensusParametersVersions"
      [] table = "StateTransitionBytecodeVersions" -> "Column::StateTransitionBytecodeVersions"

VersionColumns == { VersionColumn(t) : t \in VersionTables }

\* Versions (u32, as two 16-bit limbs): 0, 1, 255, 256 and 65536.
VersionSamples == {<<0, 0>>, <<0, 1>>, <<0, 255>>, <<0, 256>>, <<1, 0>>}

\* The raw key of a version: Primitive<4>, the u32 big-endian.
VersionKey(version) == Primitive_encode("u32", version)

VersionRawKeys == { VersionKey(v) : v \in VersionSamples }

\* The stored parameters / bytecode root of a version.
VersionValue == <<2>>

\* Lexicographic order of raw keys.
LexLess(a, b) ==
    \E i \in 1..Len(b) :
        /\ \A j \in 1..(i - 1) : j <= Len(a) /\ a[j] = b[j]
        /\ (i > Len(a) \/ a[i] < b[i])

\* The keys of a set in iteration order.
RECURSIVE SortKeys(_, _)
SortKeys(keys, direction) ==
    IF keys = {} THEN <<>>
    ELSE LET first == CHOOSE k \in keys : \A o \in keys \ {k} :
                          IF direction = "Reverse" THEN LexLess(o, k) ELSE LexLess(k, o)
         IN  <<first>> \o SortKeys(keys \ {first}, direction)

\* KeyValueStore iterate(column, direction): the rows of the column,
\* ordered lexicographically by raw key bytes.
KV_iter_all(s, col, direction) ==
    LET keys == SortKeys({ k \in DOMAIN s[col] : s[col][k] # None }, direction)
    IN  [i \in 1..Len(keys) |-> <<keys[i], s[col][keys[i]][1]>>]

\* IteratorOverTable::iter_all: every row decoded with the table's codecs.
iter_all(s, table, direction) ==
    LET rows == KV_iter_all(s, VersionColumn(table), direction)
    IN  [i \in 1..Len(rows) |->
            LET key == Primitive_decode("u32", rows[i][1])
                value == Codec_decode("Postcard", rows[i][2])
            IN  IF key.tag # "Ok" THEN key
                ELSE IF value.tag # "Ok" THEN value
                ELSE Ok(<<key.val, value.val>>)]

\* Iterator::next on a fresh iterator.
Iterator_next(items) == IF items = <<>> THEN None ELSE Some(Head(items))

\* Variant: the table is iterated forwards.
latest_consensus_parameters_version_forward(s) ==
    LET item == Iterator_next(iter_all(s, "ConsensusParametersVersions", "Forward"))
    IN  IF item = None THEN Err("NotFound")
        ELSE IF item[1].tag # "Ok" THEN item[1]
        ELSE Ok(item[1].val[1])

\* iter_all(Reverse).next().ok_or(not_found!(..))?? and Ok(version)
latest_consensus_parameters_version(s) ==
    LET item == Iterator_next(iter_all(s, "ConsensusParametersVersions", "Reverse"))
    IN  IF item = None THEN Err("NotFound")
        ELSE IF item[1].tag # "Ok" THEN item[1]
        ELSE Ok(item[1].val[1])

latest_state_transition_bytecode_version(s) ==
    LET item == Iterator_next(iter_all(s, "StateTransitionBytecodeVersions", "Reverse"))
    IN  IF item = None THEN Err("NotFound")
        ELSE IF item[1].tag # "Ok" THEN item[1]
        ELSE Ok(item[1].val[1])

InitVersions ==
    /\ store = [c \in VersionColumns |-> [k \in VersionRawKeys |-> None]]
    /\ last = Call("none", "none", <<>>, None, NoBuf, FALSE, Ok(None))
    /\ nops = 0
    /\ InitMerkle
    /\ IdleOrder
    /\ IdleCodec

VersionStep ==
    /\ nops < MaxVersionOps
    /\ nops' = nops + 1

\* A version is recorded (an upgrade is executed).
InsertVersion ==
    /\ VersionStep
    /\ \E table \in VersionTables, version \in VersionSamples :
        /\ store' = KV_put(store, VersionKey(version), VersionColumn(table),
                           Codec_encode("Postcard", VersionValue))
        /\ last' = Call("insert", table, version, Some(VersionValue), NoBuf, FALSE,
                         Ok(None))
    /\ UNCHANGED <<codecVars, merkleVars, orderVars>>

\* A recorded version is removed (a rollback).
RemoveVersion ==
    /\ VersionStep
    /\ \E table \in VersionTables, version \in VersionSamples :
        /\ store[VersionColumn(table)][VersionKey(version)] # None
        /\ store' = KV_delete(store, VersionKey(version), VersionColumn(table))
        /\ last' = Call("remove", table, version, None, NoBuf, FALSE, Ok(None))
    /\ UNCHANGED <<codecVars, merkleVars, orderVars>>

\* Bytes put under a version's key by another writer of the key-value
\* store, not through the table's value codec.
VersionRawPut ==
    /\ VersionStep
    /\ \E table \in VersionTables, version \in VersionSamples, bytes \in ForeignBytes :
        /\ store' = KV_put(store, VersionKey(version), VersionColumn(table), bytes)
        /\ last' = Call("raw_put", table, version, Some(bytes), NoBuf, FALSE, Ok(None))
    /\ UNCHANGED <<codecVars, merkleVars, orderVars>>

LatestConsensusParametersVersion ==
    /\ VersionStep
    /\ last' = Call("latest_consensus_parameters_version",
                     "ConsensusParametersVersions", <<>>, None, NoBuf, FALSE,
                     latest_consensus_parameters_version(store))
    /\ store' = store
    /\ UNCHANGED <<codecVars, merkleVars, orderVars>>

LatestStateTransitionBytecodeVersion ==
    /\ VersionStep
    /\ last' = Call("latest_state_transition_bytecode_version",
                     "StateTransitionBytecodeVersions", <<>>, None, NoBuf, FALSE,
                     latest_state_transition_bytecode_version(store))
    /\ store' = store
    /\ UNCHANGED <<codecVars, merkleVars, orderVars>>

NextVersions ==
    \/ InsertVersion
    \/ RemoveVersion
    \/ VersionRawPut
    \/ LatestConsensusParametersVersion
    \/ LatestStateTransitionBytecodeVersion

vars == <<dbVars, merkleVars, orderVars, codecVars>>

Spec == Init /\ [][Next]_vars

SpecMerkle == Init /\ [][NextMerkle]_vars

SpecOrder == InitOrder /\ [][NextOrder]_vars

SpecCodec == InitCodec /\ [][NextCodec]_vars

SpecVersions == InitVersions /\ [][NextVersions]_vars

(***************************************************************************)
(* Claims about the Database facade (checked under Spec)                   *)
(***************************************************************************)

\* The raw row of a table's key, as the key-value store holds it.
Row(s, table, key) == s[column(table)][key]

\* C1: for every table, after insert(k, v) succeeds get(k) returns Some(v);
\* the insert returns the value get(k) returned before it, so a following
\* insert(k, v2) returns the previous v and a subsequent get(k) returns v2;
\* whatever inserts and removes came before.
C1_InsertStep ==
    (last'.op = "insert" /\ last'.result.tag = "Ok") =>
        /\ Database_get(store', last'.table, last'.key) = Ok(last'.value)
        /\ Database_contains_key(store', last'.table, last'.key) = Ok(TRUE)
        /\ last'.result = Database_get(store, last'.table, last'.key)

C1_InsertGet == [][C1_InsertStep]_vars

\* A second insert under a key has returned the value of the first, a
\* different one.
C1_Witness ==
    /\ last.op = "insert"
    /\ last.result.tag = "Ok"
    /\ last.result.val # None
    /\ last.result.val # last.value
    /\ Database_get(store, last.table, last.key) = Ok(last.value)

\* C2: for every table, remove(k) returns the value the key held (Some(v)
\* after insert(k, v), None for a key that holds no value); afterwards get(k)
\* returns None and contains_key(k) returns false.
C2_RemoveStep ==
    (last'.op = "remove" /\ last'.result.tag = "Ok") =>
        /\ last'.result = Database_get(store, last'.table, last'.key)
        /\ Row(store, last'.table, last'.key) = None => last'.result = Ok(None)
        /\ Database_get(store', last'.table, last'.key) = Ok(None)
        /\ Database_contains_key(store', last'.table, last'.key) = Ok(FALSE)

C2_RemoveConsistency == [][C2_RemoveStep]_vars

\* A remove has returned the value an insert stored.
C2_Witness ==
    /\ last.op = "remove"
    /\ last.result.tag = "Ok"
    /\ last.result.val # None
    /\ Database_get(store, last.table, last.key) = Ok(None)

\* The buffers a caller may hand to read for a value of n bytes.
Buffers(n) == { [j \in 1..m |-> 255] : m \in n..MaxBuf }

\* C6: for ContractsRawCode the streaming read path returns exactly the
\* stored bytes with no framing: after insert(k, bytes), read_alloc(k) is
\* Some(bytes), read(k, buf) puts the same bytes in the buffer and reports
\* their length, size_of_value(k) is Some(len(bytes)); for a key with no
\* stored value all three return None.
C6_AfterInsert ==
    (last'.op = "insert" /\ last'.table = "ContractsRawCode" /\ last'.result.tag = "Ok") =>
        LET bytes == last'.value[1]
        IN  /\ Database_read_alloc(store', last'.key) = Ok(Some(bytes))
            /\ Database_size_of_value(store', last'.key) = Ok(Some(Len(bytes)))
            /\ \A buf \in Buffers(Len(bytes)) :
                /\ Database_read(store', last'.key, buf) = Ok(Some(Len(bytes)))
                /\ SubSeq(Database_read_buf(store', last'.key, buf), 1, Len(bytes)) = bytes

C6_ReadCalls ==
    LET held == Database_get(store, "ContractsRawCode", last.key)
    IN  /\ last.op = "read_alloc" => last.result = held
        /\ last.op = "size_of_value" =>
              last.result = Ok(IF held.val = None THEN None ELSE Some(Len(held.val[1])))
        /\ last.op = "read" =>
              /\ last.result = Ok(IF held.val = None THEN None ELSE Some(Len(held.val[1])))
              /\ held.val # None =>
                    SubSeq(last.buf, 1, Len(held.val[1])) = held.val[1]
        /\ (last.op \in {"read_alloc", "size_of_value", "read"}
                /\ Row(store, "ContractsRawCode", last.key) = None)
              => last.result = Ok(None)

C6_RawBypass == []C6_ReadCalls /\ [][C6_AfterInsert]_vars

\* The concrete case: the code [32] has been inserted and read back into a
\* buffer, one byte long.
C6_Witness ==
    /\ last.op = "read"
    /\ last.result = Ok(Some(1))
    /\ Len(last.buf) >= 1
    /\ last.buf[1] = 32
    /\ Database_read_alloc(store, last.key) = Ok(Some(<<32>>))
    /\ Database_size_of_value(store, last.key) = Ok(Some(1))

\* C10: absence is a value, not an error: get(k) on a key that holds no
\* value returns Ok(None) and contains_key(k) returns Ok(false); get and
\* contains_key return an error only when the stored bytes do not decode or
\* the backing store fails, so found, not found and error are told apart.
C10_AbsenceIsNotAnError ==
    last.op \in {"get", "contains_key"} =>
        LET row == Row(store, last.table, last.key)
            undecodable ==
                /\ row # None
                /\ Codec_decode(ValueCodec(last.table), row[1]).tag # "Ok"
        IN  /\ (~last.failed /\ row = None) =>
                  last.result = IF last.op = "get" THEN Ok(None) ELSE Ok(FALSE)
            /\ (~last.failed /\ row # None /\ last.op = "contains_key") =>
                  last.result = Ok(TRUE)
            /\ (~last.failed /\ row # None /\ last.op = "get" /\ ~undecodable) =>
                  (last.result.tag = "Ok" /\ last.result.val # None)
            /\ last.result.tag # "Ok" =>
                  \/ last.failed /\ last.result.tag = "Store"
                  \/ undecodable /\ last.op = "get" /\ last.result.tag = "Codec"

\* get has reported the absence of a key that was removed.
C10_Witness ==
    /\ last.op = "get"
    /\ nops >= 2
    /\ Row(store, last.table, last.key) = None
    /\ last.result = Ok(None)

\* C11: tables are independent namespaces: each table has exactly one
\* column and distinct tables have distinct columns, so an insert or a
\* remove on one table leaves get and contains_key of every key of every
\* other table as they were.
C11_ColumnInjective ==
    \A t1 \in PlainTables, t2 \in PlainTables :
        column(t1) = column(t2) => t1 = t2

C11_FrameStep ==
    last'.op \in {"insert", "remove"} =>
        \A table \in PlainTables \ {last'.table}, key \in Keys :
            /\ Database_get(store', table, key) = Database_get(store, table, key)
            /\ Database_contains_key(store', table, key) =
                   Database_contains_key(store, table, key)

U32Less(a, b) == a[1] < b[1] \/ (a[1] = b[1] /\ a[2] < b[2])

\* The versions a table holds a row for.
Recorded(s, table) ==
    { v \in VersionSamples : KV_exists(s, VersionKey(v), VersionColumn(table)) }

\* C12: latest_consensus_parameters_version and
\* latest_state_transition_bytecode_version return the numerically greatest
\* version recorded in their table: its raw key is the first of a reverse
\* iteration in lexicographic order of the raw key bytes, every other
\* recorded key being lexicographically smaller (the keys are fixed-width
\* big-endian); on an empty table they return a not-found error, not a
\* default version.  The only other error is that of a greatest row whose
\* stored value does not decode.
C12_LatestIsGreatest ==
    last.op \in {"latest_consensus_parameters_version",
                 "latest_state_transition_bytecode_version"} =>
        LET recorded == Recorded(store, last.table)
        IN  IF recorded = {}
            THEN last.result = Err("NotFound")
            ELSE LET greatest == CHOOSE v \in recorded :
                                     \A o \in recorded \ {v} : U32Less(o, v)
                     col == VersionColumn(last.table)
                     row == KV_iter_all(store, col, "Reverse")[1]
                 IN  /\ row[1] = VersionKey(greatest)
                     /\ \A o \in recorded \ {greatest} :
                            LexLess(VersionKey(o), VersionKey(greatest))
                     /\ IF Codec_decode("Postcard", row[2]).tag = "Ok"
                        THEN last.result = Ok(greatest)
                        ELSE last.result = Err("Codec")

\* The lookup has returned 256 from a table that also holds 255 and 1,
\* whose last key bytes are greater than that of 256.
C12_Witness ==
    /\ last.op = "latest_consensus_parameters_version"
    /\ Recorded(store, last.table) = {<<0, 1>>, <<0, 255>>, <<0, 256>>}
    /\ last.result = Ok(<<0, 256>>)

\* The lookup on a table without rows has returned not-found.
C12_EmptyWitness ==
    /\ last.op = "latest_state_transition_bytecode_version"
    /\ nops >= 3
    /\ Recorded(store, last.table) = {}
    /\ last.result = Err("NotFound")

(***************************************************************************)
(* Claims about the Merkle roots and the changeset                         *)
(* (checked under SpecMerkle and SpecOrder)                                *)
(***************************************************************************)

\* The digest of the subtree at (level, pos) that the rows of a tree determine.
RECURSIVE SubtreeOf(_, _, _, _)
SubtreeOf(data, tree, level, pos) ==
    IF level = TreeDepth
    THEN IF data[<<tree, pos>>] = None THEN EmptyDigest
         ELSE Leaf(pos, data[<<tree, pos>>][1])
    ELSE Combine(SubtreeOf(data, tree, level + 1, 2 * pos),
                 SubtreeOf(data, tree, level + 1, 2 * pos + 1))

RootOf(data, tree) == SubtreeOf(data, tree, 0, 0)

LiveSlots(data, tree) == { s \in Slots : data[<<tree, s>>] # None }

\* The value a root commits to at a slot.
RECURSIVE LeafAt(_, _, _)
LeafAt(digest, level, slot) ==
    IF digest = EmptyDigest THEN None
    ELSE IF level = TreeDepth THEN Some(digest[3])
    ELSE IF (slot \div Pow2(TreeDepth - level - 1)) % 2 = 0
         THEN LeafAt(digest[2], level + 1, slot)
         ELSE LeafAt(digest[3], level + 1, slot)

C5_OrderIndependent ==
    (ordTree \in Trees /\ ordPendA = {} /\ ordPendB = {}) =>
        /\ Database_root(ordA, ordTree) = Database_root(ordB, ordTree)
        /\ ordA.meta = ordB.meta

\* Three pairs were inserted in descending key order into one store and in
\* ascending order into the other.
C5_Witness ==
    /\ ordTree \in Trees
    /\ ordPendA = {}
    /\ ordPendB = {}
    /\ Len(ordSeqA) = 3
    /\ ordSeqA[1] > ordSeqA[2]
    /\ ordSeqA[2] > ordSeqA[3]
    /\ Database_root(ordA, ordTree) # Ok(EmptyDigest)

(***************************************************************************)
(* Claims about the primitive codecs (checked under SpecCodec)             *)
(***************************************************************************)

\* The widths the storage format fixes, written out type by type.
FormatWidth(ty) ==
    CASE ty = "u8" -> 1
      [] ty = "u16" -> 2
      [] ty = "u32" -> 4
      [] ty = "BlockHeight" -> 4
      [] ty = "u64" -> 8
      [] ty = "DaBlockHeight" -> 8
      [] ty = "u128" -> 16
      [] ty = "UtxoId" -> 33

\* C7: every primitive codec round-trips: decode(encode(v)) succeeds and
\* equals v, for each of u8, u16, u32, u64, u128, BlockHeight, DaBlockHeight
\* and UtxoId.
C7_RoundTrip ==
    (cpc = "decoded" /\ cval # None) => cres = Ok(cval[1])

\* A 128-bit value whose limbs all differ has been encoded and decoded.
C7_Witness ==
    /\ cpc = "decoded"
    /\ cty = "u128"
    /\ cval # None
    /\ cval[1][1] # cval[1][8]
    /\ cres.tag = "Ok"

\* C8: fixed-width decoding rejects every input whose length differs from
\* the codec's width: decode returns an error and no value, for Primitive<SIZE>
\* at every integer type and for the 33-byte UtxoId codec.
C8_WrongLengthRejected ==
    (cpc = "decoded" /\ Len(cbytes) # FormatWidth(cty))
        => (cres.tag # "Ok" /\ cres.val = None)

\* A 34-byte input, one byte longer than a UtxoId, has been rejected.
C8_Witness ==
    /\ cpc = "decoded"
    /\ cty = "UtxoId"
    /\ Len(cbytes) = TxIdLen + 2
    /\ cres.tag # "Ok"

\* The value of an integer whose limbs above the lowest two are zero and
\* that is below 2^31.
IsSmall(limbs) ==
    /\ \A i \in 1..Len(limbs) : i < Len(limbs) - 1 => limbs[i] = 0
    /\ Len(limbs) > 1 => limbs[Len(limbs) - 1] < 32768

SmallValue(limbs) ==
    limbs[Len(limbs)] + (IF Len(limbs) > 1 THEN 65536 * limbs[Len(limbs) - 1] ELSE 0)

Pow256(d) == CASE d = 0 -> 1 [] d = 1 -> 256 [] d = 2 -> 65536 [] d = 3 -> 16777216

\* C9: primitive encoding is byte-exact big-endian of fixed width: the
\* integer types encode to exactly 1/2/4/4/8/8/16 bytes, most significant
\* byte first (BlockHeight 5 is 00 00 00 05), and a UtxoId encodes to 33
\* bytes, the transaction id followed by the output index.
C9_BigEndianFixedWidth ==
    (cpc \in {"bytes", "decoded"} /\ cval # None) =>
        LET v == cval[1]
            w == FormatWidth(cty)
        IN  /\ Len(cbytes) = w
            /\ \A j \in 1..w : cbytes[j] \in 0..255
            /\ cty = "UtxoId" =>
                  /\ SubSeq(cbytes, 1, 32) = v.tx_id
                  /\ cbytes[33] = v.output_index
            /\ cty # "UtxoId" =>
                  \* limb i of the value is the byte pair at the same rank
                  /\ \A i \in 1..Len(v) :
                        LET lo == w - 2 * (Len(v) - i)
                        IN  v[i] = cbytes[lo] + (IF lo > 1 THEN 256 * cbytes[lo - 1] ELSE 0)
                  \* the byte at distance d from the end is digit d in base 256
                  /\ IsSmall(v) =>
                        \A d \in 0..(w - 1) :
                            cbytes[w - d] =
                                IF d > 3 THEN 0 ELSE (SmallValue(v) \div Pow256(d)) % 256
            /\ (cty = "BlockHeight" /\ v = <<0, 5>>) => cbytes = <<0, 0, 0, 5>>

\* Block height 5 has been encoded to 00 00 00 05.
C9_Witness ==
    /\ cpc = "bytes"
    /\ cty = "BlockHeight"
    /\ cval = Some(<<0, 5>>)
    /\ cbytes = <<0, 0, 0, 5>>

====
